---- MODULE Spec2Model ----
(***************************************************************************)
(* Ray-tracing traversal engine (RayVisitor) and transform model           *)
(* (Translation, Rotation, Scaling, SQT) of the ICG project.               *)
(*                                                                         *)
(* Numbers are JavaScript numbers restricted to the values the model can   *)
(* compute exactly: a number is <<n, d>>, the rational n/d in lowest terms *)
(* with d > 0, or one of <<1, 0>> (Infinity), <<-1, 0>> (-Infinity) and    *)
(* <<0, 0>> (NaN).  Zero is unsigned: x/0 takes the sign of x.  A square   *)
(* root is taken only of squares of rationals; any other argument stops    *)
(* the evaluation instead of yielding a rounded value.                     *)
(***************************************************************************)
EXTENDS Integers, Sequences, FiniteSets, TLC

VARIABLES
  transform,               \* SpecT: the Transformation object under mutation
  status,                  \* "idle" | "running" | "threw": the render call
  pc,                      \* position inside render / the traversal
  scene,                   \* rootNode argument of the current render call
  phongValues,             \* this.phongValues argument of the current call
  renderArgs,              \* render's camera and lightPositions parameters
  renders,                 \* number of render calls made on this RayVisitor
  loopX, loopY,            \* render's loop variables x and y
  x, y,                    \* this.x, this.y
  transformations,         \* this.transformations
  inverseTransformations,  \* this.inverseTransformations
  objectIntersections,     \* this.objectIntersections
  intersection,            \* this.intersection
  intersectionColor,       \* this.intersectionColor
  ray,                     \* this.ray
  camera,                  \* this.camera
  lightPositions,          \* this.lightPositions
  data,                    \* this.imageData.data, one entry per pixel
  presented,               \* what putImageData last wrote to the canvas
  cur,                     \* node whose accept() is being dispatched
  frames,                  \* active visitGroupNode calls: <<[node, i]>>
  visited,                 \* history: the leaf visits of this traversal
  frameLog,                \* history: what each pixel of this frame was made from
  lastFrame                \* history: scene and frameLog of the previous render call

vars == <<transform, status, pc, scene, phongValues, renderArgs, renders, loopX, loopY, x, y,
          transformations, inverseTransformations, objectIntersections,
          intersection, intersectionColor, ray, camera, lightPositions,
          data, presented, cur, frames, visited, frameLog, lastFrame>>

rvars == <<status, pc, scene, phongValues, renderArgs, renders, loopX, loopY, x, y,
           transformations, inverseTransformations, objectIntersections,
           intersection, intersectionColor, ray, camera, lightPositions,
           data, presented, cur, frames, visited, frameLog, lastFrame>>

-----------------------------------------------------------------------------
(* Numbers *)

Abs(n) == IF n < 0 THEN -n ELSE n

Sgn(n) == IF n < 0 THEN -1 ELSE IF n > 0 THEN 1 ELSE 0

RECURSIVE Gcd(_, _)
Gcd(a, b) == IF b = 0 THEN a ELSE Gcd(b, a % b)

Num(n, d) ==
  IF d = 0 THEN <<Sgn(n), 0>>
  ELSE LET g == Gcd(Abs(n), Abs(d)) IN <<(Sgn(d) * n) \div g, Abs(d) \div g>>

N(i) == <<i, 1>>

NaN == <<0, 0>>

Infinity == <<1, 0>>

IsNaN(a) == a = NaN

IsFinite(a) == a[2] # 0

Neg(a) == <<-a[1], a[2]>>

Add(a, b) ==
  IF a[2] = 0 /\ b[2] = 0 THEN (IF a = b THEN a ELSE NaN)
  ELSE Num(a[1] * b[2] + b[1] * a[2], a[2] * b[2])

Sub(a, b) == Add(a, Neg(b))

Mul(a, b) == Num(a[1] * b[1], a[2] * b[2])

Recip(a) == Num(a[2], a[1])

Div(a, b) == Mul(a, Recip(b))

Lt(a, b) ==
  /\ ~IsNaN(a)
  /\ ~IsNaN(b)
  /\ IF a[2] = 0 \/ b[2] = 0
     THEN (a = Neg(Infinity) /\ b # Neg(Infinity)) \/ (b = Infinity /\ a # Infinity)
     ELSE a[1] * b[2] < b[1] * a[2]

Le(a, b) == ~IsNaN(a) /\ ~IsNaN(b) /\ ~Lt(b, a)

ISqrt(n) == CHOOSE k \in 0..n : k * k = n

Sqrt(a) ==
  IF IsNaN(a) \/ a[1] < 0 THEN NaN
  ELSE IF a[2] = 0 THEN Infinity
  ELSE <<ISqrt(a[1]), ISqrt(a[2])>>

-----------------------------------------------------------------------------
(* Optional values: <<>> is null / undefined, <<v>> is the value v *)

Null == <<>>

(* Let(e, LAMBDA v : body) is body with v bound to the value of e *)
Let(e, F(_)) == F(e)

Some(v) == <<v>>

IsNull(o) == o = <<>>

Val(o) == o[1]

-----------------------------------------------------------------------------
(* Vector: [x, y, z, w]; w = 1 a point, w = 0 a direction *)

Vector(vx, vy, vz, vw) == [x |-> vx, y |-> vy, z |-> vz, w |-> vw]

Vec(i, j, k, l) == Vector(N(i), N(j), N(k), N(l))

VMul(v, s) == Vector(Mul(v.x, s), Mul(v.y, s), Mul(v.z, s), v.w)

VDiv(v, s) == Vector(Div(v.x, s), Div(v.y, s), Div(v.z, s), v.w)

VLength(v) == Sqrt(Add(Add(Mul(v.x, v.x), Mul(v.y, v.y)), Mul(v.z, v.z)))

Normalize(v) == VDiv(v, VLength(v))

-----------------------------------------------------------------------------
(* Matrix: four rows of four numbers *)

Idx == 1..4

Matrix(a, b, c, d) == <<a, b, c, d>>

Identity ==
  Matrix(<<N(1), N(0), N(0), N(0)>>, <<N(0), N(1), N(0), N(0)>>,
         <<N(0), N(0), N(1), N(0)>>, <<N(0), N(0), N(0), N(1)>>)

MatTranslation(v) ==
  Matrix(<<N(1), N(0), N(0), v.x>>, <<N(0), N(1), N(0), v.y>>,
         <<N(0), N(0), N(1), v.z>>, <<N(0), N(0), N(0), N(1)>>)

MatScaling(v) ==
  Matrix(<<v.x, N(0), N(0), N(0)>>, <<N(0), v.y, N(0), N(0)>>,
         <<N(0), N(0), v.z, N(0)>>, <<N(0), N(0), N(0), N(1)>>)

Sum4(s) == Add(Add(Add(s[1], s[2]), s[3]), s[4])

MatMul(A, B) ==
  [i \in Idx |-> [j \in Idx |-> Sum4([k \in Idx |-> Mul(A[i][k], B[k][j])])]]

Components(v) == <<v.x, v.y, v.z, v.w>>

FromComponents(c) == Vector(c[1], c[2], c[3], c[4])

MulVec(A, v) ==
  FromComponents([i \in Idx |-> Sum4([k \in Idx |-> Mul(A[i][k], Components(v)[k])])])

(* An angle is a whole number q of quarter turns (q * PI/2 radians), the   *)
(* angles whose sine and cosine are exact.                                 *)
Cos(q) == LET r == q % 4 IN IF r = 0 THEN N(1) ELSE IF r = 2 THEN N(-1) ELSE N(0)

Sin(q) == LET r == q % 4 IN IF r = 1 THEN N(1) ELSE IF r = 3 THEN N(-1) ELSE N(0)

MatRotation(axis, angle) ==
  LET c == Cos(angle)
      s == Sin(angle)
  IN IF axis.x = N(1) THEN
       Matrix(<<N(1), N(0), N(0), N(0)>>, <<N(0), c, Neg(s), N(0)>>,
              <<N(0), s, c, N(0)>>, <<N(0), N(0), N(0), N(1)>>)
     ELSE IF axis.y = N(1) THEN
       Matrix(<<c, N(0), s, N(0)>>, <<N(0), N(1), N(0), N(0)>>,
              <<Neg(s), N(0), c, N(0)>>, <<N(0), N(0), N(0), N(1)>>)
     ELSE
       Matrix(<<c, Neg(s), N(0), N(0)>>, <<s, c, N(0), N(0)>>,
              <<N(0), N(0), N(1), N(0)>>, <<N(0), N(0), N(0), N(1)>>)

-----------------------------------------------------------------------------
(* Quaternion: [x, y, z, w] with w the real part *)

Quaternion(qx, qy, qz, qw) == [x |-> qx, y |-> qy, z |-> qz, w |-> qw]

(* fromAxisAngle takes the sine and cosine of angle/2: the angle is an     *)
(* even number of quarter turns.                                           *)
QFromAxisAngle(axis, angle) ==
  LET h == angle \div 2
  IN Quaternion(Mul(axis.x, Sin(h)), Mul(axis.y, Sin(h)), Mul(axis.z, Sin(h)), Cos(h))

QInverse(q) == Quaternion(Neg(q.x), Neg(q.y), Neg(q.z), q.w)

QToMatrix(q) ==
  LET two(a) == Mul(N(2), a)
      one(a, b) == Sub(N(1), two(Add(Mul(a, a), Mul(b, b))))
  IN Matrix(
       <<one(q.y, q.z), two(Sub(Mul(q.x, q.y), Mul(q.w, q.z))),
         two(Add(Mul(q.x, q.z), Mul(q.w, q.y))), N(0)>>,
       <<two(Add(Mul(q.x, q.y), Mul(q.w, q.z))), one(q.x, q.z),
         two(Sub(Mul(q.y, q.z), Mul(q.w, q.x))), N(0)>>,
       <<two(Sub(Mul(q.x, q.z), Mul(q.w, q.y))), two(Add(Mul(q.y, q.z), Mul(q.w, q.x))),
         one(q.x, q.y), N(0)>>,
       <<N(0), N(0), N(0), N(1)>>)

-----------------------------------------------------------------------------
(* transformation.ts: a Transformation is a record of its fields *)

getMatrix(t) == t.matrix

getInverseMatrix(t) == t.inverse

Translation(translation) ==
  [kind |-> "Translation",
   matrix |-> MatTranslation(translation),
   inverse |-> MatTranslation(VMul(translation, N(-1))),
   translationVector |-> translation]

TranslationRecalculate(t) ==
  [t EXCEPT !.matrix = MatTranslation(t.translationVector),
            !.inverse = MatTranslation(VMul(t.translationVector, N(-1)))]

SetTranslationVector(t, v) ==
  TranslationRecalculate([t EXCEPT !.translationVector = v])

Rotation(axis, angle) ==
  [kind |-> "Rotation",
   matrix |-> MatRotation(axis, angle),
   inverse |-> MatRotation(axis, -angle),
   axis |-> axis,
   angle |-> angle]

RotationRecalculate(t) ==
  [t EXCEPT !.matrix = MatRotation(t.axis, t.angle),
            !.inverse = MatRotation(t.axis, -t.angle)]

SetAxis(t, axis) == RotationRecalculate([t EXCEPT !.axis = axis])

SetAngle(t, angle) == RotationRecalculate([t EXCEPT !.angle = angle])

Scaling(scale) ==
  [kind |-> "Scaling",
   matrix |-> MatScaling(scale),
   inverse |-> MatScaling(Vector(Div(N(1), scale.x), Div(N(1), scale.y),
                                 Div(N(1), scale.z), N(0))),
   scaleVector |-> scale]

ScalingRecalculate(t) ==
  [t EXCEPT !.matrix = MatScaling(t.scaleVector),
            !.inverse = MatScaling(VMul(t.scaleVector, N(-1)))]

SetScale(t, scale) == ScalingRecalculate([t EXCEPT !.scaleVector = scale])

SQTRecalculate(t) ==
  [t EXCEPT
     !.matrix = MatMul(MatMul(MatTranslation(t.translation), QToMatrix(t.quaternion)),
                       MatScaling(t.scale)),
     !.inverse = MatMul(MatMul(MatScaling(Vector(Div(N(1), t.scale.x), Div(N(1), t.scale.y),
                                                 Div(N(1), t.scale.z), N(0))),
                               QToMatrix(QInverse(t.quaternion))),
                        MatTranslation(VMul(t.translation, N(-1))))]

SQT(scale, rotation, translation) ==
  SQTRecalculate([kind |-> "SQT",
                  matrix |-> Identity,
                  inverse |-> Identity,
                  scale |-> scale,
                  translation |-> translation,
                  quaternion |-> QFromAxisAngle(rotation.axis, rotation.angle)])

SetRotation(t, q) == SQTRecalculate([t EXCEPT !.quaternion = q])

(* Inputs of the transform model *)

AxisX == Vec(1, 0, 0, 0)

AxisY == Vec(0, 1, 0, 0)

AxisZ == Vec(0, 0, 1, 0)

Axes == {AxisX, AxisY, AxisZ}

Angles == 0..3

HalfTurns == {0, 2}

TranslationVectors == {Vec(0, 0, -5, 0), Vec(1, 0, -5, 0), Vec(0, 0, 0, 0)}

ScaleVectors ==
  {Vec(2, 2, 2, 0), Vec(1, 2, 4, 0),
   Vector(Num(1, 2), Num(1, 2), Num(1, 2), N(0)), Vec(0, 1, 1, 0)}

Quaternions ==
  {Quaternion(N(0), N(0), N(0), N(1)), Quaternion(N(0), N(1), N(0), N(0)),
   Quaternion(Num(3, 5), N(0), N(0), Num(4, 5))}

Transformations ==
  {Translation(v) : v \in TranslationVectors}
    \cup {Rotation(a, q) : a \in Axes, q \in Angles}
    \cup {Scaling(v) : v \in ScaleVectors}
    \cup {SQT(s, [axis |-> a, angle |-> q], v) :
            s \in ScaleVectors, a \in Axes, q \in HalfTurns, v \in TranslationVectors}

-----------------------------------------------------------------------------
(* Ray, Intersection and the unit objects' intersect methods *)

Ray(origin, direction) == [origin |-> origin, direction |-> direction]

Intersection(t, point, normal) == [t |-> t, point |-> point, normal |-> normal]

closerThan(a, b) == Lt(a.t, b.t)

VSub(a, b) == Vector(Sub(a.x, b.x), Sub(a.y, b.y), Sub(a.z, b.z), Sub(a.w, b.w))

VDot(a, b) == Add(Add(Mul(a.x, b.x), Mul(a.y, b.y)), Mul(a.z, b.z))

VCross(a, b) ==
  Vector(Sub(Mul(a.y, b.z), Mul(a.z, b.y)), Sub(Mul(a.z, b.x), Mul(a.x, b.z)),
         Sub(Mul(a.x, b.y), Mul(a.y, b.x)), N(0))

PointAt(r, t) ==
  Vector(Add(r.origin.x, Mul(r.direction.x, t)), Add(r.origin.y, Mul(r.direction.y, t)),
         Add(r.origin.z, Mul(r.direction.z, t)), N(1))

RMin(a, b) == IF Lt(b, a) THEN b ELSE a

RMax(a, b) == IF Lt(a, b) THEN b ELSE a

(* Sphere.intersect for a sphere of the given center and radius: the       *)
(* smaller positive root of the quadratic, none when the discriminant is   *)
(* not positive.                                                           *)
SphereIntersect(center, radius, r) ==
  Let(VSub(r.origin, center), LAMBDA x0 :
  Let(VDot(x0, r.direction), LAMBDA b :
  Let(Sub(VDot(x0, x0), Mul(radius, radius)), LAMBDA c :
  Let(Sub(Mul(b, b), c), LAMBDA disc :
    IF ~Lt(N(0), disc) THEN Null
    ELSE Let(Sqrt(disc), LAMBDA root :
         Let(Sub(Neg(b), root), LAMBDA t1 :
         Let(IF Lt(N(0), t1) THEN t1 ELSE Add(Neg(b), root), LAMBDA t :
           IF ~Lt(N(0), t) THEN Null
           ELSE Let(PointAt(r, t), LAMBDA p :
                  Some(Intersection(t, p, Normalize(VSub(p, center))))))))))))

(* AABox.intersect, the slab method: per axis the interval of t inside the *)
(* slab, a direction parallel to the slab being a miss outside it.         *)
Slab(o, d, lo, hi) ==
  IF d = N(0)
  THEN [miss |-> Lt(o, lo) \/ Lt(hi, o), near |-> Neg(Infinity), far |-> Infinity]
  ELSE Let(Div(Sub(lo, o), d), LAMBDA t1 :
       Let(Div(Sub(hi, o), d), LAMBDA t2 :
         [miss |-> FALSE, near |-> RMin(t1, t2), far |-> RMax(t1, t2)]))

BoxNormal(sx, sy, sz, d, t, entering) ==
  LET side(s) == IF entering THEN s.near = t ELSE s.far = t
      sign(c) == IF entering THEN N(-Sgn(c[1])) ELSE N(Sgn(c[1]))
  IN IF side(sx) THEN Vector(sign(d.x), N(0), N(0), N(0))
     ELSE IF side(sy) THEN Vector(N(0), sign(d.y), N(0), N(0))
     ELSE Vector(N(0), N(0), sign(d.z), N(0))

AABoxIntersect(lo, hi, r) ==
  Let(Slab(r.origin.x, r.direction.x, lo.x, hi.x), LAMBDA sx :
  Let(Slab(r.origin.y, r.direction.y, lo.y, hi.y), LAMBDA sy :
  Let(Slab(r.origin.z, r.direction.z, lo.z, hi.z), LAMBDA sz :
  Let(RMax(RMax(sx.near, sy.near), sz.near), LAMBDA tmin :
  Let(RMin(RMin(sx.far, sy.far), sz.far), LAMBDA tmax :
    IF sx.miss \/ sy.miss \/ sz.miss \/ Lt(tmax, tmin) \/ Lt(tmax, N(0)) THEN Null
    ELSE Let(IF Lt(tmin, N(0)) THEN tmax ELSE tmin, LAMBDA t :
           Some(Intersection(t, PointAt(r, t),
                             BoxNormal(sx, sy, sz, r.direction, t, ~Lt(tmin, N(0)))))))))))

(* Ray against one triangle a, b, c: the plane hit, kept when it lies in   *)
(* front of the origin and inside the three edges; a ray parallel to the   *)
(* plane misses.  The normal is the triangle's geometric normal, brought   *)
(* to unit length once the nearest triangle is known.                      *)
InsideEdge(u, v, p, n) == ~Lt(VDot(VCross(VSub(v, u), VSub(p, u)), n), N(0))

TriangleIntersect(a, b, c, r) ==
  Let(VCross(VSub(b, a), VSub(c, a)), LAMBDA n :
  Let(VDot(n, r.direction), LAMBDA denom :
    IF denom = N(0) THEN Null
    ELSE Let(Div(VDot(n, VSub(a, r.origin)), denom), LAMBDA t :
         Let(PointAt(r, t), LAMBDA p :
           IF \/ ~Lt(N(0), t)
              \/ ~InsideEdge(a, b, p, n)
              \/ ~InsideEdge(b, c, p, n)
              \/ ~InsideEdge(c, a, p, n)
           THEN Null
           ELSE Some(Intersection(t, p, n))))))

(* Indexed triangle mesh: the nearest hit over the triangles in index      *)
(* order, a later triangle replacing the best one only when strictly       *)
(* closer.                                                                 *)
Nearest(hits) ==
  {k \in DOMAIN hits :
     /\ ~IsNull(hits[k])
     /\ \A j \in DOMAIN hits :
          ~IsNull(hits[j]) =>
            IF j < k THEN closerThan(Val(hits[k]), Val(hits[j]))
            ELSE ~closerThan(Val(hits[j]), Val(hits[k]))}

MeshIntersect(vertices, indices, r) ==
  Let([k \in 1..Len(indices) |->
         TriangleIntersect(vertices[indices[k][1]], vertices[indices[k][2]],
                           vertices[indices[k][3]], r)], LAMBDA hits :
  Let(Nearest(hits), LAMBDA nearest :
    IF nearest = {} THEN Null
    ELSE Some([Val(hits[CHOOSE k \in nearest : TRUE]) EXCEPT !.normal = Normalize(@)])))

Half == Num(1, 2)

Point(px, py, pz) == Vector(px, py, pz, N(1))

UNIT_SPHERE == [shape |-> "Sphere", center |-> Point(N(0), N(0), N(0)), radius |-> N(1)]

UNIT_AABOX ==
  [shape |-> "AABox", minPoint |-> Point(Neg(Half), Neg(Half), Neg(Half)),
   maxPoint |-> Point(Half, Half, Half)]

(* The pyramid's base corners and top; faces as outward-wound triangles *)
UNIT_PYRAMID ==
  [shape |-> "Mesh",
   vertices |-> <<Point(Neg(Half), N(0), Neg(Half)), Point(Neg(Half), N(0), Half),
                  Point(Half, N(0), Neg(Half)), Point(Half, N(0), Half),
                  Point(N(0), N(1), N(0))>>,
   indices |-> <<<<1, 3, 4>>, <<1, 4, 2>>, <<2, 4, 5>>, <<4, 3, 5>>,
                 <<3, 1, 5>>, <<1, 2, 5>>>>]

CustomShape(vertices, indices) ==
  [shape |-> "Mesh", vertices |-> vertices, indices |-> indices]

intersect(unitObject, r) ==
  IF unitObject.shape = "Sphere" THEN SphereIntersect(unitObject.center, unitObject.radius, r)
  ELSE IF unitObject.shape = "AABox"
       THEN AABoxIntersect(unitObject.minPoint, unitObject.maxPoint, r)
  ELSE MeshIntersect(unitObject.vertices, unitObject.indices, r)

-----------------------------------------------------------------------------
(* Camera ray and shading *)

(* Ray.makeRay(x, y, camera): the ray of pixel (x, y) through the camera's *)
(* image plane, carried to world space by camera.toWorld.  The pinhole     *)
(* directions are irrational; the model gives pixel (x, y) the unit vector *)
(* with rational components that the stereographic map assigns to          *)
(* (x/8, y/8): one direction per pixel, pixel (0, 0) on the optical axis   *)
(* (0, 0, -1), larger x further right, larger y further down.              *)
PixelDirection(px, py) ==
  LET a == Num(px, 8)
      b == Num(py, 8)
      s == Add(Mul(a, a), Mul(b, b))
      k == Add(N(1), s)
  IN Vector(Div(Mul(N(2), a), k), Div(Mul(N(-2), b), k), Div(Sub(s, N(1)), k), N(0))

makeRay(px, py, cam) ==
  Ray(cam.origin, Normalize(MulVec(cam.toWorld, PixelDirection(px, py))))

(* phong(color, intersection, lightPositions, phongValues, cameraPosition) *)
(* is kept as the application itself: two calls give the same colour       *)
(* exactly when their arguments agree.                                     *)
phong(color, hit, lights, pv, eye) ==
  [color |-> color, intersection |-> hit, lightPositions |-> lights,
   phongValues |-> pv, cameraPosition |-> eye]

-----------------------------------------------------------------------------
(* Scene graph nodes; a shape's color is optional *)

GroupNode(t, children) == [kind |-> "GroupNode", transform |-> t, children |-> children]

SphereNode(name, color) == [kind |-> "SphereNode", name |-> name, color |-> color]

AABoxNode(name, color) == [kind |-> "AABoxNode", name |-> name, color |-> color]

PyramidNode(name, color) == [kind |-> "PyramidNode", name |-> name, color |-> color]

CustomShapeNode(name, vertices, indices, color) ==
  [kind |-> "CustomShapeNode", name |-> name, vertices |-> vertices,
   indices |-> indices, color |-> color]

CameraNode == [kind |-> "CameraNode", name |-> "camera"]

LightNode(name) == [kind |-> "LightNode", name |-> name]

TextureBoxNode == [kind |-> "TextureBoxNode", name |-> "textureBox"]

TextureVideoBoxNode == [kind |-> "TextureVideoBoxNode", name |-> "textureVideoBox"]

TextureTextBoxNode == [kind |-> "TextureTextBoxNode", name |-> "textureTextBox"]

TexturePyramidNode == [kind |-> "TexturePyramidNode", name |-> "texturePyramid"]

ShapeKinds == {"SphereNode", "AABoxNode", "PyramidNode", "CustomShapeNode"}

TextureKinds ==
  {"TextureBoxNode", "TextureVideoBoxNode", "TextureTextBoxNode", "TexturePyramidNode"}

-----------------------------------------------------------------------------
(* Bounds and inputs of the renderer *)

Width == 2

Height == 1

MaxRenders == 3

Red == Vector(Num(2, 5), N(0), N(0), N(1))

Green == Vector(N(0), Num(2, 5), N(0), N(1))

Blue == Vector(N(0), N(0), Num(3, 10), N(1))

T0 == Translation(Vec(0, 0, 0, 0))

T5 == Translation(Vec(0, 0, -5, 0))

T3 == Translation(Vec(0, 0, -3, 0))

TRight5 == Translation(Vec(1, 0, -5, 0))

TRight10 == Translation(Vec(1, 0, -10, 0))

TCamera == Translation(Vec(1, 0, 0, 0))

S4 == Scaling(Vec(4, 4, 4, 0))

(* A Scaling whose scale was assigned after construction *)
S2Assigned == SetScale(Scaling(Vec(1, 1, 1, 0)), Vec(2, 2, 2, 0))

(* A Rotation animated as in animate(): gnRotation.angle = ... *)
RY == SetAngle(Rotation(AxisY, 0), 1)

RX == Rotation(AxisX, 3)

QuadVertices ==
  <<Point(N(-1), N(-1), N(0)), Point(N(1), N(-1), N(0)),
    Point(N(1), N(1), N(0)), Point(N(-1), N(1), N(0))>>

QuadIndices == <<<<1, 2, 3>>, <<1, 3, 4>>>>

(* Two boxes behind one another, the farther one first, and a third box    *)
(* coinciding with the nearer one.                                         *)
SceneBoxes ==
  GroupNode(T0, <<CameraNode, LightNode("light"),
                  GroupNode(TRight10, <<GroupNode(S4, <<AABoxNode("far", Some(Blue))>>)>>),
                  GroupNode(T5, <<GroupNode(S4, <<AABoxNode("near", Some(Red)),
                                                  AABoxNode("twin", Some(Green))>>)>>)>>)

(* A pyramid, a sphere in front of it and a quad, under rotations *)
SceneShapes ==
  GroupNode(T0, <<CameraNode,
                  GroupNode(T5, <<GroupNode(RX, <<GroupNode(S4,
                                     <<PyramidNode("pyramid", Some(Green))>>)>>)>>),
                  GroupNode(T5, <<GroupNode(RY, <<SphereNode("ball", Some(Blue))>>)>>),
                  LightNode("light"),
                  GroupNode(TRight5, <<CustomShapeNode("quad", QuadVertices,
                                                       QuadIndices, Some(Red))>>)>>)

(* The camera comes after the shape *)
SceneCameraLast ==
  GroupNode(T0, <<GroupNode(T5, <<GroupNode(S4, <<AABoxNode("box", Some(Red))>>)>>),
                  CameraNode>>)

(* The camera comes after a light; the box sits under the assigned Scaling *)
SceneLightFirst ==
  GroupNode(T0, <<LightNode("early"), CameraNode,
                  GroupNode(T5, <<GroupNode(S2Assigned, <<AABoxNode("box", Some(Blue))>>)>>)>>)

(* No shape node at all; the camera is moved to the right *)
SceneNoShapes ==
  GroupNode(T0, <<GroupNode(TCamera, <<CameraNode, LightNode("light")>>),
                  TextureBoxNode, TextureVideoBoxNode, TextureTextBoxNode,
                  TexturePyramidNode>>)

(* A small box in front of a large box whose node has no color, and two    *)
(* lights, one of them after the shapes and under a translation.           *)
SceneColorless ==
  GroupNode(T0, <<CameraNode, LightNode("key"),
                  GroupNode(T3, <<AABoxNode("small", Some(Red))>>),
                  GroupNode(T5, <<GroupNode(S4, <<AABoxNode("plain", Null)>>)>>),
                  GroupNode(TRight5, <<LightNode("fill")>>)>>)

(* SceneColorless with texture nodes added among its nodes *)
SceneTextured ==
  GroupNode(T0, <<CameraNode, TextureBoxNode, LightNode("key"),
                  GroupNode(T3, <<TextureVideoBoxNode, AABoxNode("small", Some(Red))>>),
                  GroupNode(T5, <<GroupNode(S4, <<AABoxNode("plain", Null),
                                                  TextureTextBoxNode>>)>>),
                  GroupNode(TRight5, <<LightNode("fill"), TexturePyramidNode>>)>>)

Scenes ==
  {SceneBoxes, SceneShapes, SceneCameraLast, SceneLightFirst, SceneNoShapes,
   SceneColorless, SceneTextured}

(* The camera and lightPositions arguments of render: those of animate(),  *)
(* and another camera with another light.                                  *)
RenderArguments ==
  {[camera |-> [origin |-> Vec(0, 0, 0, 1), width |-> Width, height |-> Height,
                alpha |-> "PI/3"],
    lightPositions |-> <<Vec(1, 1, 1, 1)>>],
   [camera |-> [origin |-> Vec(0, 0, 5, 1), width |-> Width, height |-> Height,
                alpha |-> "PI/3"],
    lightPositions |-> <<Vec(0, 2, 0, 1)>>]}

PhongConfigs ==
  {[ambient |-> Num(4, 5), diffuse |-> Num(1, 2), specular |-> Num(1, 2), shininess |-> N(10)]}

-----------------------------------------------------------------------------
(* RayVisitor *)

Top(s) == s[Len(s)]

Pop(s) == IF s = <<>> THEN s ELSE SubSeq(s, 1, Len(s) - 1)

Origin == Vec(0, 0, 0, 1)

(* One pixel of imageData.data: its three colour bytes, kept as the colour *)
(* they were computed from (Null: all three are 0), and its alpha byte.    *)
Pixel(rgb, a) == [rgb |-> rgb, a |-> a]

PixelIndex(cx, cy) == Width * cy + cx

Pixels == 0..(Width * Height - 1)

Cleared == [p \in Pixels |-> Pixel(Null, 0)]

(* History records *)
Visit(node, usedRay, hit, threw) ==
  [name |-> node.name, kind |-> node.kind, ray |-> usedRay, hit |-> hit, threw |-> threw,
   color |-> IF node.kind \in ShapeKinds THEN node.color ELSE Null]

RaysUsed ==
  LET shapes == SelectSeq(visited, LAMBDA e : e.kind \in ShapeKinds)
  IN [k \in 1..Len(shapes) |-> shapes[k].ray]

PixelContext ==
  [threw |-> FALSE,
   rays |-> RaysUsed,
   eye |-> IF IsNull(intersection) \/ IsNull(intersectionColor) \/ IsNull(camera)
           THEN Null ELSE Some(Val(camera).origin),
   lights |-> lightPositions,
   intersection |-> intersection,
   color |-> IF IsNull(intersection) THEN Null ELSE intersectionColor]

ThrewContext ==
  [threw |-> TRUE, rays |-> <<>>, eye |-> Null, lights |-> <<>>,
   intersection |-> Null, color |-> Null]

RInit ==
  /\ status = "idle"
  /\ pc = "idle"
  /\ scene = Null
  /\ phongValues = Null
  /\ renderArgs = Null
  /\ renders = 0
  /\ loopX = 0
  /\ loopY = 0
  /\ x = Null
  /\ y = Null
  /\ transformations = Null
  /\ inverseTransformations = Null
  /\ objectIntersections = Null
  /\ intersection = Null
  /\ intersectionColor = Null
  /\ ray = Null
  /\ camera = Null
  /\ lightPositions = Null
  /\ data = Cleared
  /\ presented = Null
  /\ cur = Null
  /\ frames = <<>>
  /\ visited = <<>>
  /\ frameLog = <<>>
  /\ lastFrame = [scene |-> Null, log |-> <<>>]

(* render, lines 80-86: clear the buffer and enter the loops *)
Render(rootNode, cameraArg, lightPositionsArg, pv) ==
  /\ status # "running"
  /\ renders < MaxRenders
  /\ renders' = renders + 1
  /\ status' = "running"
  /\ scene' = Some(rootNode)
  /\ phongValues' = Some(pv)
  /\ renderArgs' = Some([camera |-> cameraArg, lightPositions |-> lightPositionsArg])
  /\ data' = Cleared
  /\ loopX' = 0
  /\ loopY' = 0
  /\ pc' = IF 0 < Width /\ 0 < Height THEN "pixel" ELSE "present"
  /\ frameLog' = <<>>
  /\ UNCHANGED <<transform, x, y, transformations, inverseTransformations,
                 objectIntersections, intersection, intersectionColor, ray, camera,
                 lightPositions, presented, cur, frames, visited, lastFrame>>

(* PixelStart without the reset of lightPositions of line 96 *)
PixelStartKeepingLights ==
  /\ pc = "pixel"
  /\ x' = loopX
  /\ y' = loopY
  /\ transformations' = <<Identity>>
  /\ inverseTransformations' = <<Identity>>
  /\ objectIntersections' = <<>>
  /\ intersection' = Null
  /\ cur' = scene
  /\ frames' = <<>>
  /\ visited' = <<>>
  /\ pc' = "accept"
  /\ UNCHANGED <<transform, renderArgs, status, scene, phongValues, renders, loopX, loopY,
                 intersectionColor, ray, camera, data, presented, frameLog, lastFrame,
                 lightPositions>>

(* render, lines 89-99: reset the per-pixel state and accept the root *)
PixelStart ==
  /\ pc = "pixel"
  /\ x' = loopX
  /\ y' = loopY
  /\ transformations' = <<Identity>>
  /\ inverseTransformations' = <<Identity>>
  /\ objectIntersections' = <<>>
  /\ lightPositions' = <<>>
  /\ intersection' = Null
  /\ cur' = scene
  /\ frames' = <<>>
  /\ visited' = <<>>
  /\ pc' = "accept"
  /\ UNCHANGED <<transform, renderArgs, status, scene, phongValues, renders, loopX, loopY,
                 intersectionColor, ray, camera, data, presented, frameLog, lastFrame>>

(* Where control goes when a visit method returns *)
Return(fs) == IF fs = <<>> THEN "shade" ELSE "loop"

(* An error leaves the traversal and render: nothing catches it *)
Throws ==
  /\ status' = "threw"
  /\ renderArgs' = Null
  /\ pc' = "idle"
  /\ frameLog' = Append(frameLog, ThrewContext)
  /\ lastFrame' = [scene |-> scene, log |-> Append(frameLog, ThrewContext)]

ChildMatrix(top, node) == MatMul(top, getMatrix(node.transform))

(* ChildInverse composed in the forward order *)
ChildInverseForward(top, node) == MatMul(top, getInverseMatrix(node.transform))

ChildInverse(top, node) == MatMul(getInverseMatrix(node.transform), top)

(* VisitGroupNode without the push onto inverseTransformations of line 126 *)
VisitGroupNodeOnePush ==
  /\ pc = "accept"
  /\ Val(cur).kind = "GroupNode"
  /\ transformations' = Append(transformations, ChildMatrix(Top(transformations), Val(cur)))
  /\ frames' = Append(frames, [node |-> Val(cur), i |-> 0])
  /\ pc' = "loop"
  /\ UNCHANGED <<transform, renderArgs, status, scene, phongValues, renders, loopX, loopY,
                 x, y, objectIntersections, intersection, intersectionColor, ray, camera,
                 lightPositions, data, presented, cur, visited, frameLog, lastFrame,
                 inverseTransformations>>

(* visitGroupNode, lines 125-126 *)
VisitGroupNode ==
  /\ pc = "accept"
  /\ Val(cur).kind = "GroupNode"
  /\ transformations' = Append(transformations, ChildMatrix(Top(transformations), Val(cur)))
  /\ inverseTransformations' =
       Append(inverseTransformations, ChildInverse(Top(inverseTransformations), Val(cur)))
  /\ frames' = Append(frames, [node |-> Val(cur), i |-> 0])
  /\ pc' = "loop"
  /\ UNCHANGED <<transform, renderArgs, status, scene, phongValues, renders, loopX, loopY, x, y,
                 objectIntersections, intersection, intersectionColor, ray, camera,
                 lightPositions, data, presented, cur, visited, frameLog, lastFrame>>

(* visitGroupNode, lines 128-129: the next child accepts the visitor *)
VisitChild ==
  /\ pc = "loop"
  /\ Top(frames).i < Len(Top(frames).node.children)
  /\ cur' = Some(Top(frames).node.children[Top(frames).i + 1])
  /\ frames' = [frames EXCEPT ![Len(frames)].i = @ + 1]
  /\ pc' = "accept"
  /\ UNCHANGED <<transform, renderArgs, status, scene, phongValues, renders, loopX, loopY, x, y,
                 transformations, inverseTransformations, objectIntersections,
                 intersection, intersectionColor, ray, camera, lightPositions, data,
                 presented, visited, frameLog, lastFrame>>

(* LeaveGroupNode without the pop of inverseTransformations of line 132 *)
LeaveGroupNodeOnePop ==
  /\ pc = "loop"
  /\ Top(frames).i = Len(Top(frames).node.children)
  /\ transformations' = Pop(transformations)
  /\ frames' = Pop(frames)
  /\ pc' = Return(Pop(frames))
  /\ UNCHANGED <<transform, renderArgs, status, scene, phongValues, renders, loopX, loopY, x, y,
                 objectIntersections, intersection, intersectionColor, ray, camera,
                 lightPositions, data, presented, cur, visited, frameLog, lastFrame,
                 inverseTransformations>>

(* visitGroupNode, lines 131-132: pop both stacks and return *)
LeaveGroupNode ==
  /\ pc = "loop"
  /\ Top(frames).i = Len(Top(frames).node.children)
  /\ transformations' = Pop(transformations)
  /\ inverseTransformations' = Pop(inverseTransformations)
  /\ frames' = Pop(frames)
  /\ pc' = Return(Pop(frames))
  /\ UNCHANGED <<transform, renderArgs, status, scene, phongValues, renders, loopX, loopY, x, y,
                 objectIntersections, intersection, intersectionColor, ray, camera,
                 lightPositions, data, presented, cur, visited, frameLog, lastFrame>>

(* visitNode, line 162: the world ray carried into object space *)
LocalRay(fromWorld, worldRay) ==
  Ray(MulVec(fromWorld, worldRay.origin), Normalize(MulVec(fromWorld, worldRay.direction)))

(* visitNode, lines 167-169: `ray` there is the object-space ray of line 162 *)
WorldIntersection(toWorld, localRay, hit) ==
  Let(MulVec(toWorld, hit.point), LAMBDA intersectionPointWorld :
  Let(Normalize(MulVec(toWorld, hit.normal)), LAMBDA intersectionNormalWorld :
    Intersection(Div(Sub(intersectionPointWorld.x, localRay.origin.x), localRay.direction.x),
                 intersectionPointWorld, intersectionNormalWorld)))

(* Replaces that also takes a hit that is not farther than the best *)
ReplacesNotFarther(hit, best) == IsNull(best) \/ ~closerThan(Val(best), hit)

(* visitNode, line 170 *)
Replaces(hit, best) == IsNull(best) \/ closerThan(hit, Val(best))

(* VisitNode that takes over the color of the node only when it has one *)
VisitNodeKeepingColor(node, unitObject) ==
  IF IsNull(ray)
  THEN /\ Throws
       /\ visited' = Append(visited, Visit(node, Null, Null, TRUE))
       /\ UNCHANGED <<transform, scene, phongValues, renders, loopX, loopY, x, y,
                      transformations, inverseTransformations, objectIntersections,
                      intersection, intersectionColor, ray, camera, lightPositions,
                      data, presented, cur, frames>>
  ELSE \E localRay \in {LocalRay(Top(inverseTransformations), Val(ray))} :
       \E found \in {intersect(unitObject, localRay)} :
       \E hit \in {IF IsNull(found) THEN Null
                   ELSE Some(WorldIntersection(Top(transformations), localRay, Val(found)))} :
       \E better \in {~IsNull(hit) /\ Replaces(Val(hit), intersection)} :
          /\ objectIntersections' =
               IF IsNull(found) THEN objectIntersections
               ELSE Append(objectIntersections, <<Val(found), localRay, node>>)
          /\ intersection' = IF better THEN hit ELSE intersection
          /\ intersectionColor' =
               IF better /\ ~IsNull(node.color) THEN node.color ELSE intersectionColor
          /\ visited' = Append(visited, Visit(node, ray, hit, FALSE))
          /\ pc' = Return(frames)
          /\ UNCHANGED <<transform, renderArgs, status, scene, phongValues, renders, loopX,
                         loopY, x, y, transformations, inverseTransformations, ray, camera,
                         lightPositions, data, presented, cur, frames, frameLog,
                         lastFrame>>

(* visitNode, lines 158-175.  Reading this.ray.origin while this.ray is    *)
(* undefined is a TypeError.                                               *)
VisitNode(node, unitObject) ==
  IF IsNull(ray)
  THEN /\ Throws
       /\ visited' = Append(visited, Visit(node, Null, Null, TRUE))
       /\ UNCHANGED <<transform, scene, phongValues, renders, loopX, loopY, x, y,
                      transformations, inverseTransformations, objectIntersections,
                      intersection, intersectionColor, ray, camera, lightPositions,
                      data, presented, cur, frames>>
  ELSE \E localRay \in {LocalRay(Top(inverseTransformations), Val(ray))} :
       \E found \in {intersect(unitObject, localRay)} :
       \E hit \in {IF IsNull(found) THEN Null
                   ELSE Some(WorldIntersection(Top(transformations), localRay, Val(found)))} :
       \E better \in {~IsNull(hit) /\ Replaces(Val(hit), intersection)} :
          /\ objectIntersections' =
               IF IsNull(found) THEN objectIntersections
               ELSE Append(objectIntersections, <<Val(found), localRay, node>>)
          /\ intersection' = IF better THEN hit ELSE intersection
          /\ intersectionColor' = IF better THEN node.color ELSE intersectionColor
          /\ visited' = Append(visited, Visit(node, ray, hit, FALSE))
          /\ pc' = Return(frames)
          /\ UNCHANGED <<transform, renderArgs, status, scene, phongValues, renders, loopX, loopY,
                         x, y, transformations, inverseTransformations, ray, camera,
                         lightPositions, data, presented, cur, frames, frameLog,
                         lastFrame>>

VisitSphereNode ==
  /\ pc = "accept"
  /\ Val(cur).kind = "SphereNode"
  /\ VisitNode(Val(cur), UNIT_SPHERE)

VisitPyramidNode ==
  /\ pc = "accept"
  /\ Val(cur).kind = "PyramidNode"
  /\ VisitNode(Val(cur), UNIT_PYRAMID)

VisitAABoxNode ==
  /\ pc = "accept"
  /\ Val(cur).kind = "AABoxNode"
  /\ VisitNode(Val(cur), UNIT_AABOX)

VisitCustomShapeNode ==
  /\ pc = "accept"
  /\ Val(cur).kind = "CustomShapeNode"
  /\ VisitNode(Val(cur), CustomShape(Val(cur).vertices, Val(cur).indices))

(* VisitNothing that drops the best intersection found so far *)
VisitNothingClearing(kind) ==
  /\ pc = "accept"
  /\ Val(cur).kind = kind
  /\ intersection' = Null
  /\ visited' = Append(visited, Visit(Val(cur), Null, Null, FALSE))
  /\ pc' = Return(frames)
  /\ UNCHANGED <<transform, renderArgs, status, scene, phongValues, renders, loopX, loopY,
                 x, y, transformations, inverseTransformations, objectIntersections,
                 intersectionColor, ray, camera, lightPositions, data,
                 presented, cur, frames, frameLog, lastFrame>>

(* The visit methods with an empty body, lines 148-153 *)
VisitNothing(kind) ==
  /\ pc = "accept"
  /\ Val(cur).kind = kind
  /\ visited' = Append(visited, Visit(Val(cur), Null, Null, FALSE))
  /\ pc' = Return(frames)
  /\ UNCHANGED <<transform, renderArgs, status, scene, phongValues, renders, loopX, loopY, x, y,
                 transformations, inverseTransformations, objectIntersections,
                 intersection, intersectionColor, ray, camera, lightPositions, data,
                 presented, cur, frames, frameLog, lastFrame>>

VisitTextureBoxNode == VisitNothing("TextureBoxNode")

VisitTextureVideoBoxNode == VisitNothing("TextureVideoBoxNode")

VisitTextureTextBoxNode == VisitNothing("TextureTextBoxNode")

VisitTexturePyramidNode == VisitNothing("TexturePyramidNode")

(* visitCameraNode, lines 177-188 *)
VisitCameraNode ==
  /\ pc = "accept"
  /\ Val(cur).kind = "CameraNode"
  /\ LET toWorld == Top(transformations)
         cam == [origin |-> MulVec(toWorld, Origin), width |-> 100, height |-> 100,
                 alpha |-> "PI/3", toWorld |-> toWorld]
     IN /\ camera' = Some(cam)
        /\ ray' = Some(makeRay(x, y, cam))
  /\ visited' = Append(visited, Visit(Val(cur), Null, Null, FALSE))
  /\ pc' = Return(frames)
  /\ UNCHANGED <<transform, renderArgs, status, scene, phongValues, renders, loopX, loopY, x, y,
                 transformations, inverseTransformations, objectIntersections,
                 intersection, intersectionColor, lightPositions, data, presented,
                 cur, frames, frameLog, lastFrame>>

(* VisitLightNode that appends the origin without carrying it to the world *)
VisitLightNodeLocal ==
  /\ pc = "accept"
  /\ Val(cur).kind = "LightNode"
  /\ lightPositions' = Append(lightPositions, Origin)
  /\ visited' = Append(visited, Visit(Val(cur), Null, Null, FALSE))
  /\ pc' = Return(frames)
  /\ UNCHANGED <<transform, renderArgs, status, scene, phongValues, renders, loopX, loopY,
                 x, y, transformations, inverseTransformations, objectIntersections,
                 intersection, intersectionColor, ray, camera, data, presented,
                 cur, frames, frameLog, lastFrame>>

(* visitLightNode, lines 190-193 *)
VisitLightNode ==
  /\ pc = "accept"
  /\ Val(cur).kind = "LightNode"
  /\ lightPositions' = Append(lightPositions, MulVec(Top(transformations), Origin))
  /\ visited' = Append(visited, Visit(Val(cur), Null, Null, FALSE))
  /\ pc' = Return(frames)
  /\ UNCHANGED <<transform, renderArgs, status, scene, phongValues, renders, loopX, loopY, x, y,
                 transformations, inverseTransformations, objectIntersections,
                 intersection, intersectionColor, ray, camera, data, presented,
                 cur, frames, frameLog, lastFrame>>

(* WritePixel that also writes a pixel without an intersection, as opaque  *)
(* black                                                                   *)
WritePixelOpaqueBackground ==
  /\ pc = "shade"
  /\ IF ~IsNull(intersection) /\ ~IsNull(intersectionColor) /\ IsNull(camera)
     THEN /\ Throws
          /\ UNCHANGED <<data, loopX, loopY>>
     ELSE /\ data' =
               IF IsNull(intersection) \/ IsNull(intersectionColor)
               THEN [data EXCEPT ![PixelIndex(loopX, loopY)] = Pixel(Null, 255)]
               ELSE [data EXCEPT ![PixelIndex(loopX, loopY)] =
                       Pixel(Some(phong(Val(intersectionColor), Val(intersection),
                                        lightPositions, Val(phongValues),
                                        Val(camera).origin)), 255)]
          /\ loopY' = IF loopY + 1 < Height THEN loopY + 1 ELSE 0
          /\ loopX' = IF loopY + 1 < Height THEN loopX ELSE loopX + 1
          /\ pc' = IF loopY + 1 < Height \/ loopX + 1 < Width THEN "pixel" ELSE "present"
          /\ frameLog' = Append(frameLog, PixelContext)
          /\ UNCHANGED <<status, lastFrame, renderArgs>>
  /\ UNCHANGED <<transform, scene, phongValues, renders, x, y, transformations,
                 inverseTransformations, objectIntersections, intersection,
                 intersectionColor, ray, camera, lightPositions, presented, cur,
                 frames, visited>>

(* WritePixel that puts the image data on the canvas after every pixel *)
WritePixelPresenting ==
  /\ pc = "shade"
  /\ IF ~IsNull(intersection) /\ ~IsNull(intersectionColor) /\ IsNull(camera)
     THEN /\ Throws
          /\ UNCHANGED <<data, loopX, loopY, presented>>
     ELSE /\ \E written \in
               {IF IsNull(intersection) THEN data
                ELSE IF IsNull(intersectionColor)
                     THEN [data EXCEPT ![PixelIndex(loopX, loopY)] = Pixel(Null, 255)]
                     ELSE [data EXCEPT ![PixelIndex(loopX, loopY)] =
                             Pixel(Some(phong(Val(intersectionColor), Val(intersection),
                                              lightPositions, Val(phongValues),
                                              Val(camera).origin)), 255)]} :
               /\ data' = written
               /\ presented' = Some(written)
          /\ loopY' = IF loopY + 1 < Height THEN loopY + 1 ELSE 0
          /\ loopX' = IF loopY + 1 < Height THEN loopX ELSE loopX + 1
          /\ pc' = IF loopY + 1 < Height \/ loopX + 1 < Width THEN "pixel" ELSE "present"
          /\ frameLog' = Append(frameLog, PixelContext)
          /\ UNCHANGED <<status, lastFrame, renderArgs>>
  /\ UNCHANGED <<transform, scene, phongValues, renders, x, y, transformations,
                 inverseTransformations, objectIntersections, intersection,
                 intersectionColor, ray, camera, lightPositions, cur,
                 frames, visited>>

(* WritePixel that shades with the camera and the lightPositions render     *)
(* was called with                                                         *)
WritePixelFromArguments ==
  /\ pc = "shade"
  /\ IF ~IsNull(intersection) /\ ~IsNull(intersectionColor) /\ IsNull(camera)
     THEN /\ Throws
          /\ UNCHANGED <<data, loopX, loopY>>
     ELSE /\ data' =
               IF IsNull(intersection) THEN data
               ELSE IF IsNull(intersectionColor)
                    THEN [data EXCEPT ![PixelIndex(loopX, loopY)] = Pixel(Null, 255)]
                    ELSE [data EXCEPT ![PixelIndex(loopX, loopY)] =
                            Pixel(Some(phong(Val(intersectionColor), Val(intersection),
                                             Val(renderArgs).lightPositions,
                                             Val(phongValues),
                                             Val(renderArgs).camera.origin)), 255)]
          /\ loopY' = IF loopY + 1 < Height THEN loopY + 1 ELSE 0
          /\ loopX' = IF loopY + 1 < Height THEN loopX ELSE loopX + 1
          /\ pc' = IF loopY + 1 < Height \/ loopX + 1 < Width THEN "pixel" ELSE "present"
          /\ frameLog' = Append(frameLog, PixelContext)
          /\ UNCHANGED <<status, lastFrame, renderArgs>>
  /\ UNCHANGED <<transform, scene, phongValues, renders, x, y, transformations,
                 inverseTransformations, objectIntersections, intersection,
                 intersectionColor, ray, camera, lightPositions, presented, cur,
                 frames, visited>>

(* render, lines 101-114, and the loop steps of lines 87-88.  Reading      *)
(* this.camera.origin while this.camera is undefined is a TypeError.       *)
WritePixel ==
  /\ pc = "shade"
  /\ IF ~IsNull(intersection) /\ ~IsNull(intersectionColor) /\ IsNull(camera)
     THEN /\ Throws
          /\ UNCHANGED <<data, loopX, loopY>>
     ELSE /\ data' =
               IF IsNull(intersection) THEN data
               ELSE IF IsNull(intersectionColor)
                    THEN [data EXCEPT ![PixelIndex(loopX, loopY)] = Pixel(Null, 255)]
                    ELSE [data EXCEPT ![PixelIndex(loopX, loopY)] =
                            Pixel(Some(phong(Val(intersectionColor), Val(intersection),
                                             lightPositions, Val(phongValues),
                                             Val(camera).origin)), 255)]
          /\ loopY' = IF loopY + 1 < Height THEN loopY + 1 ELSE 0
          /\ loopX' = IF loopY + 1 < Height THEN loopX ELSE loopX + 1
          /\ pc' = IF loopY + 1 < Height \/ loopX + 1 < Width THEN "pixel" ELSE "present"
          /\ frameLog' = Append(frameLog, PixelContext)
          /\ UNCHANGED <<status, lastFrame, renderArgs>>
  /\ UNCHANGED <<transform, scene, phongValues, renders, x, y, transformations,
                 inverseTransformations, objectIntersections, intersection,
                 intersectionColor, ray, camera, lightPositions, presented, cur,
                 frames, visited>>

(* render, line 117 *)
PutImageData ==
  /\ pc = "present"
  /\ presented' = Some(data)
  /\ renderArgs' = Null
  /\ status' = "idle"
  /\ pc' = "idle"
  /\ lastFrame' = [scene |-> scene, log |-> frameLog]
  /\ UNCHANGED <<transform, scene, phongValues, renders, loopX, loopY, x, y,
                 transformations, inverseTransformations, objectIntersections,
                 intersection, intersectionColor, ray, camera, lightPositions, data,
                 cur, frames, visited, frameLog>>

Init == transform = T0 /\ RInit

Next ==
  \/ \E rootNode \in Scenes, args \in RenderArguments, pv \in PhongConfigs :
       Render(rootNode, args.camera, args.lightPositions, pv)
  \/ PixelStart
  \/ VisitGroupNode
  \/ VisitChild
  \/ LeaveGroupNode
  \/ VisitSphereNode
  \/ VisitPyramidNode
  \/ VisitAABoxNode
  \/ VisitCustomShapeNode
  \/ VisitTextureBoxNode
  \/ VisitTextureVideoBoxNode
  \/ VisitTextureTextBoxNode
  \/ VisitTexturePyramidNode
  \/ VisitCameraNode
  \/ VisitLightNode
  \/ WritePixel
  \/ PutImageData

Spec == Init /\ [][Next]_vars

-----------------------------------------------------------------------------
(* The transform model on its own: one Transformation and its mutations *)

AssignTranslationVector ==
  /\ transform.kind = "Translation"
  /\ \E v \in TranslationVectors : transform' = SetTranslationVector(transform, v)
  /\ UNCHANGED rvars

AssignAxis ==
  /\ transform.kind = "Rotation"
  /\ \E a \in Axes : transform' = SetAxis(transform, a)
  /\ UNCHANGED rvars

AssignAngle ==
  /\ transform.kind = "Rotation"
  /\ \E q \in Angles : transform' = SetAngle(transform, q)
  /\ UNCHANGED rvars

AssignScale ==
  /\ transform.kind = "Scaling"
  /\ \E v \in ScaleVectors : transform' = SetScale(transform, v)
  /\ UNCHANGED rvars

AssignRotation ==
  /\ transform.kind = "SQT"
  /\ \E q \in Quaternions : transform' = SetRotation(transform, q)
  /\ UNCHANGED rvars

(* SQT's scale, translation and quaternion are plain public fields:        *)
(* writing one changes that field alone.                                   *)
WriteSQTScale ==
  /\ transform.kind = "SQT"
  /\ \E v \in ScaleVectors : transform' = [transform EXCEPT !.scale = v]
  /\ UNCHANGED rvars

WriteSQTTranslation ==
  /\ transform.kind = "SQT"
  /\ \E v \in TranslationVectors : transform' = [transform EXCEPT !.translation = v]
  /\ UNCHANGED rvars

WriteSQTQuaternion ==
  /\ transform.kind = "SQT"
  /\ \E q \in Quaternions : transform' = [transform EXCEPT !.quaternion = q]
  /\ UNCHANGED rvars

InitT == transform \in Transformations /\ RInit

NextT ==
  \/ AssignTranslationVector
  \/ AssignAxis
  \/ AssignAngle
  \/ AssignScale
  \/ AssignRotation
  \/ WriteSQTScale
  \/ WriteSQTTranslation
  \/ WriteSQTQuaternion

SpecT == InitT /\ [][NextT]_vars

-----------------------------------------------------------------------------
(* Properties of the traversal *)

(* The traversal of the current pixel has returned normally to render *)
TraversalDone == pc = "shade"

(* The shape visits of the current traversal that reported a hit *)
Hits == {k \in 1..Len(visited) : visited[k].kind \in ShapeKinds /\ ~IsNull(visited[k].hit)}

HitT(k) == Val(visited[k].hit).t

(* Visit k is the first-visited hit of minimal t *)
FirstNearest(k) ==
  /\ k \in Hits
  /\ \A j \in Hits \ {k} : Le(HitT(k), HitT(j))
  /\ \A j \in Hits : j < k => Lt(HitT(k), HitT(j))

(* C1: after the traversal of one pixel the best intersection is null iff  *)
(* no shape node reported a hit; otherwise it is the intersection of the   *)
(* first-visited shape node whose t is minimal among all hits (an equal t  *)
(* met later never replaces it) and intersectionColor is that node's color.*)
C1_NearestHit ==
  TraversalDone =>
    /\ IsNull(intersection) <=> Hits = {}
    /\ Hits # {} =>
         \E k \in Hits : /\ FirstNearest(k)
                         /\ intersection = visited[k].hit
                         /\ intersectionColor = visited[k].color

(* C2: when rootNode.accept has returned normally both stacks have depth 1 *)
C2_StackDepth ==
  TraversalDone => Len(transformations) = 1 /\ Len(inverseTransformations) = 1

(* A finished traversal that went through groups nested four deep *)
C2_Witness ==
  /\ TraversalDone
  /\ scene = Some(SceneShapes)
  /\ \E k \in 1..Len(visited) : visited[k].name = "pyramid"
  /\ Len(transformations) = 1

MutualInverses(t) ==
  /\ MatMul(getMatrix(t), getInverseMatrix(t)) = Identity
  /\ MatMul(getInverseMatrix(t), getMatrix(t)) = Identity

InTraversal == pc \in {"accept", "loop", "shade"}

(* C3: at every point of a traversal, provided the transform of every      *)
(* group being visited has a matrix and an inverse that are mutual         *)
(* inverses, inverseTransformations[i] is the inverse of                   *)
(* transformations[i] for every stack index i.                             *)
C3_StackInverses ==
  InTraversal =>
    \/ /\ Len(transformations) = Len(inverseTransformations)
       /\ \A i \in 1..Len(transformations) :
            /\ MatMul(transformations[i], inverseTransformations[i]) = Identity
            /\ MatMul(inverseTransformations[i], transformations[i]) = Identity
    \/ \E f \in 1..Len(frames) : ~MutualInverses(frames[f].node.transform)

(* Inside a translation, a rotation and a scaling, all mutual inverses *)
C3_Witness ==
  /\ InTraversal
  /\ Len(transformations) = 5
  /\ \A f \in 1..Len(frames) : MutualInverses(frames[f].node.transform)
  /\ \E f \in 1..Len(frames) : frames[f].node.transform.kind = "Rotation"
  /\ \E f \in 1..Len(frames) : frames[f].node.transform.kind = "Scaling"
  /\ Top(transformations) # Identity

(* Every scale component of the transformation is non-zero *)
NonZeroScale(t) ==
  /\ t.kind = "Scaling" => t.scaleVector.x # N(0) /\ t.scaleVector.y # N(0) /\ t.scaleVector.z # N(0)
  /\ t.kind = "SQT" => t.scale.x # N(0) /\ t.scale.y # N(0) /\ t.scale.z # N(0)

(* The matrices of an SQT are the ones recalculate computes from its fields *)
Recalculated(t) == t.kind = "SQT" => t = SQTRecalculate(t)

(* C4: for every Transformation with non-zero scale components, after      *)
(* construction and after any sequence of setter calls, getMatrix() times  *)
(* getInverseMatrix() is the identity matrix.                              *)
C4_MatrixTimesInverse ==
  (NonZeroScale(transform) /\ Recalculated(transform)) =>
    MatMul(getMatrix(transform), getInverseMatrix(transform)) = Identity

(* The transformation as its constructor builds it from the parameters *)
Constructed(t) ==
  CASE t.kind = "Translation" -> Translation(t.translationVector)
    [] t.kind = "Rotation" -> Rotation(t.axis, t.angle)
    [] t.kind = "Scaling" -> Scaling(t.scaleVector)
    [] t.kind = "SQT" -> SQTRecalculate(t)

(* The transformation as its recalculate method leaves it *)
Recalculate(t) ==
  CASE t.kind = "Translation" -> TranslationRecalculate(t)
    [] t.kind = "Rotation" -> RotationRecalculate(t)
    [] t.kind = "Scaling" -> ScalingRecalculate(t)
    [] t.kind = "SQT" -> SQTRecalculate(t)

(* C5: in every reachable state the matrix and the inverse are both the    *)
(* ones computed from the current parameter values: every mutation of a    *)
(* parameter, the SQT's scale, quaternion and translation fields included, *)
(* recomputes both in the same step.                                       *)
C5_Synchronized ==
  transform = Constructed(transform) \/ transform = Recalculate(transform)

(* No CameraNode was visited before visit k of the current traversal *)
NoCameraBefore(k) == \A j \in 1..(k - 1) : visited[j].kind # "CameraNode"

(* C6: a traversal that reaches a shape node or a light node before any    *)
(* CameraNode of the same traversal fails with an error at that node, for  *)
(* every pixel and every render call.                                      *)
C6_MissingCameraFails ==
  \A k \in 1..Len(visited) :
    (visited[k].kind \in ShapeKinds \cup {"LightNode"} /\ NoCameraBefore(k)) =>
      visited[k].threw

(* C7: the context that produces each pixel (the rays used for             *)
(* intersection, the camera origin, the light list, the best intersection  *)
(* and the candidate color) is the same for a fixed scene whatever was     *)
(* rendered before: a frame of the scene rendered in the frame before it   *)
(* has, pixel by pixel, the contexts of that frame.                        *)
C7_ContextIndependent ==
  (pc = "present" /\ lastFrame.scene = scene) => frameLog = lastFrame.log

(* The traversal of a pixel is about to start: render has reached line 99 *)
TraversalStart == pc = "accept" /\ frames = <<>> /\ visited = <<>>

(* C8: at the start of the traversal for every pixel both stacks hold the  *)
(* identity alone, lightPositions is empty and the best intersection is    *)
(* none.                                                                   *)
C8_ContextReset ==
  TraversalStart =>
    /\ transformations = <<Identity>>
    /\ inverseTransformations = <<Identity>>
    /\ lightPositions = <<>>
    /\ IsNull(intersection)

(* The start of a pixel after a pixel that collected a light and a hit *)
C8_Witness ==
  /\ TraversalStart
  /\ loopX > 0
  /\ frameLog # <<>>
  /\ frameLog[Len(frameLog)].lights # <<>>
  /\ ~IsNull(frameLog[Len(frameLog)].intersection)

(* C9: the t stored for a hit is the offset between the world hit point    *)
(* and the origin of the world ray (this.ray), divided by the matching     *)
(* component of the direction of the world ray (where that component is   *)
(* not zero).                                                              *)
C9_WorldRayT ==
  \A k \in Hits :
    Val(visited[k].ray).direction.x # N(0) =>
    HitT(k) = Div(Sub(Val(visited[k].hit).point.x, Val(visited[k].ray).origin.x),
                  Val(visited[k].ray).direction.x)

(* C10: the t of the best intersection is a finite number *)
C10_FiniteT ==
  ~IsNull(intersection) => IsFinite(Val(intersection).t)

(* C11: no Transformation exists whose inverse matrix has an Infinity or   *)
(* NaN entry: a transformation that is not invertible (a zero scale       *)
(* component) is refused when it is constructed or assigned.               *)
C11_NoDegenerateTransformation ==
  \A i \in Idx : \A j \in Idx : IsFinite(getInverseMatrix(transform)[i][j])

(* render has returned normally and the frame is on the canvas *)
Completed == status = "idle" /\ renders > 0 /\ pc = "idle"

(* C12: after render completes the alpha byte of every pixel of the        *)
(* buffer is 255, the pixels without an intersection included.             *)
C12_OpaqueAlpha ==
  Completed => \A p \in Pixels : data[p].a = 255

RECURSIVE HasShape(_)
(* The tree under the node holds a Sphere, AABox, Pyramid or CustomShape node *)
HasShape(node) ==
  \/ node.kind \in ShapeKinds
  \/ /\ node.kind = "GroupNode"
     /\ \E c \in 1..Len(node.children) : HasShape(node.children[c])

(* The pixel of the k-th traversal of a frame: x is the outer loop *)
PixelOf(k) == PixelIndex((k - 1) \div Height, (k - 1) % Height)

(* The value data.fill(0) gives a pixel *)
Background == Pixel(Null, 0)

(* C13: a pixel whose traversal ended with no intersection is left as the  *)
(* clear left it; when the scene holds no shape node every pixel of the    *)
(* raster has the background value.                                        *)
C13_NoHitUntouched ==
  /\ \A k \in 1..Len(frameLog) :
       IsNull(frameLog[k].intersection) => data[PixelOf(k)] = Background
  /\ (pc = "present" /\ ~HasShape(Val(scene))) => \A p \in Pixels : data[p] = Background

(* A frame of a scene without shapes, after a frame that drew something *)
C13_Witness ==
  /\ pc = "present"
  /\ ~HasShape(Val(scene))
  /\ Len(frameLog) = Width * Height
  /\ ~IsNull(presented)
  /\ \E p \in Pixels : Val(presented)[p] # Background

(* The visits of the current traversal whose hit is the best intersection *)
Owners == {k \in Hits : visited[k].hit = intersection}

(* The node that owns the best intersection has no color *)
OwnerColorless ==
  /\ ~IsNull(intersection)
  /\ Owners # {}
  /\ IsNull(visited[CHOOSE k \in Owners : \A j \in Owners : k <= j].color)

(* C14: when the traversal of a pixel ends with an intersection whose      *)
(* owning node has no color, render writes (0,0,0,255) to that pixel, not  *)
(* a value of the shading function, and raises no error.                   *)
C14_ColorlessIsBlack ==
  [][(pc = "shade" /\ OwnerColorless) =>
       /\ data' = [data EXCEPT ![PixelIndex(loopX, loopY)] = Pixel(Null, 255)]
       /\ status' = "running"]_vars

(* Opaque black was written for a hit right after a pixel that had a color *)
C14_Witness ==
  \E k \in 2..Len(frameLog) :
    /\ ~frameLog[k].threw
    /\ ~IsNull(frameLog[k].intersection)
    /\ IsNull(frameLog[k].color)
    /\ ~IsNull(frameLog[k - 1].color)
    /\ data[PixelOf(k)] = Pixel(Null, 255)
    /\ ~IsNull(data[PixelOf(k - 1)].rgb)

(* C15: within a render call the canvas is written by the one             *)
(* putImageData that follows the last pixel of the frame, and a frame      *)
(* abandoned by an error writes nothing to the canvas.                     *)
C15_SinglePresentation ==
  [][/\ presented' # presented =>
          /\ pc = "present"
          /\ Len(frameLog) = Width * Height
          /\ \A k \in 1..Len(frameLog) : ~frameLog[k].threw
          /\ presented' = Some(data)
     /\ (status = "running" /\ status' = "idle") =>
          /\ pc = "present"
          /\ presented' = Some(data)
     /\ status' = "threw" => presented' = presented]_vars

(* A completed frame with a written pixel, on a RayVisitor used before *)
C15_Witness ==
  /\ Completed
  /\ presented = Some(data)
  /\ lastFrame.log = frameLog
  /\ Len(frameLog) = Width * Height
  /\ renders > 1
  /\ \E p \in Pixels : data[p] # Background

RECURSIVE Lights(_, _)
RECURSIVE ChildLights(_, _, _)
(* The world positions of the LightNodes under the node, depth first with  *)
(* children in list order, top being the forward matrix above the node     *)
Lights(node, top) ==
  IF node.kind = "LightNode" THEN <<MulVec(top, Origin)>>
  ELSE IF node.kind = "GroupNode"
       THEN ChildLights(node.children, MatMul(top, getMatrix(node.transform)), 1)
       ELSE <<>>

(* The lights under the children from the given one on *)
ChildLights(children, top, from) ==
  IF from > Len(children) THEN <<>>
  ELSE Lights(children[from], top) \o ChildLights(children, top, from + 1)

(* C16: after the traversal of a pixel lightPositions holds one entry per  *)
(* LightNode of the tree, in depth-first order, each the forward matrix at *)
(* that LightNode applied to (0,0,0,1), with nothing from earlier pixels;  *)
(* a shaded pixel was shaded with all of them.                             *)
C16_LightPositions ==
  Let(Lights(Val(scene), Identity), LAMBDA expected :
    /\ TraversalDone => lightPositions = expected
    /\ \A k \in 1..Len(frameLog) :
         ~IsNull(data[PixelOf(k)].rgb) =>
           Val(data[PixelOf(k)].rgb).lightPositions = expected)

(* A later pixel with a hit, and a translated light met after the shapes *)
C16_Witness ==
  /\ TraversalDone
  /\ loopX > 0
  /\ ~IsNull(intersection)
  /\ Len(lightPositions) = 2
  /\ lightPositions[2] # Origin
  /\ visited[Len(visited)].kind = "LightNode"

(* C17: when the visit of a child fails, every GroupNode being visited has *)
(* popped its two entries by the time the error has left visitGroupNode:   *)
(* after a failed traversal both stacks are back at depth 1.               *)
C17_PopsOnError ==
  status = "threw" => Len(transformations) = 1 /\ Len(inverseTransformations) = 1

RECURSIVE WithoutTextures(_)
(* The tree with its texture nodes taken out *)
WithoutTextures(node) ==
  IF node.kind # "GroupNode" THEN node
  ELSE [node EXCEPT !.children =
          LET kept == SelectSeq(node.children, LAMBDA c : c.kind \notin TextureKinds)
          IN [c \in 1..Len(kept) |-> WithoutTextures(kept[c])]]

(* The frame just computed and the frame before it are of two scenes that  *)
(* differ only in texture nodes                                            *)
TextureTwins ==
  /\ pc = "present"
  /\ ~IsNull(lastFrame.scene)
  /\ lastFrame.scene # scene
  /\ WithoutTextures(Val(lastFrame.scene)) = WithoutTextures(Val(scene))

(* C18: the visit of a TextureBoxNode, TextureVideoBoxNode,                *)
(* TextureTextBoxNode or TexturePyramidNode leaves both stacks, the light  *)
(* list, the ray, the camera, the best intersection, the candidate color   *)
(* and the buffer unchanged, and a scene renders the same pixels with and  *)
(* without such nodes.                                                     *)
C18_TextureNodesNoOp ==
  /\ [][(pc = "accept" /\ Val(cur).kind \in TextureKinds) =>
          UNCHANGED <<transformations, inverseTransformations, lightPositions, ray,
                      camera, intersection, intersectionColor, objectIntersections,
                      data, status>>]_vars
  /\ [](TextureTwins => (frameLog = lastFrame.log /\ presented = Some(data)))

(* Two such frames with a written pixel, and a texture visit with a hit    *)
(* already found                                                           *)
C18_Witness ==
  /\ TextureTwins
  /\ \E p \in Pixels : data[p] # Background
  /\ \E k \in 2..Len(visited) :
       visited[k].kind \in TextureKinds /\ ~IsNull(visited[k - 1].hit)

(* C19: at every point of a traversal the two stacks have the same depth,  *)
(* which is 1 plus the number of visitGroupNode calls in progress, and a   *)
(* GroupNode about to pop finds more than one entry on each stack.         *)
C19_StackDepths ==
  InTraversal =>
    /\ Len(transformations) = Len(inverseTransformations)
    /\ Len(transformations) = 1 + Len(frames)
    /\ pc = "loop" => Len(transformations) > 1 /\ Len(inverseTransformations) > 1

(* A shape node about to be visited under three GroupNodes *)
C19_Witness ==
  /\ pc = "accept"
  /\ Val(cur).kind \in ShapeKinds
  /\ Len(frames) = 3
  /\ Len(transformations) = 4

(* The value render leaves in a pixel whose traversal collected the context *)
Shaded(ctx, pv) ==
  IF IsNull(ctx.intersection) THEN Background
  ELSE IF IsNull(ctx.color) THEN Pixel(Null, 255)
       ELSE Pixel(Some(phong(Val(ctx.color), Val(ctx.intersection), ctx.lights, pv,
                             Val(ctx.eye))), 255)

(* C20: every pixel of the raster is a function of what the traversal of   *)
(* the tree collected for it (the nearest hit, its color, the visitor's    *)
(* light positions and its camera's origin) and of the phong values; the   *)
(* camera and the lightPositions render was called with take no part.      *)
C20_ArgumentsUnused ==
  \A k \in 1..Len(frameLog) :
    ~frameLog[k].threw => data[PixelOf(k)] = Shaded(frameLog[k], Val(phongValues))

(* A finished raster with a shaded pixel, rendered with a camera and       *)
(* light positions that differ from the ones the traversal collected       *)
C20_Witness ==
  /\ pc = "present"
  /\ ~IsNull(renderArgs)
  /\ \E k \in 1..Len(frameLog) :
       /\ ~IsNull(data[PixelOf(k)].rgb)
       /\ Val(data[PixelOf(k)].rgb).lightPositions # Val(renderArgs).lightPositions
       /\ Val(data[PixelOf(k)].rgb).cameraPosition # Val(renderArgs).camera.origin
       /\ Val(renderArgs).lightPositions # <<>>

(* A shape node is about to be visited *)
ShapeVisit == pc = "accept" /\ Val(cur).kind \in ShapeKinds

(* The visit just recorded missed the shape, or hit it at a t that is not  *)
(* strictly smaller than that of the best intersection held before         *)
NotCloser(v, best) ==
  \/ IsNull(v.hit)
  \/ ~IsNull(best) /\ ~Lt(Val(v.hit).t, Val(best).t)

(* C21: the visit of a shape node leaves the two transform stacks, the     *)
(* light list, the world ray and the camera unchanged; when the shape is   *)
(* missed, or hit at a t not strictly smaller than the current best, the   *)
(* best intersection and the candidate color are unchanged too.            *)
C21_ShapeVisitFrame ==
  [][ShapeVisit =>
       /\ UNCHANGED <<transformations, inverseTransformations, lightPositions, ray, camera>>
       /\ Len(visited') = Len(visited) + 1
       /\ NotCloser(visited'[Len(visited')], intersection) =>
            UNCHANGED <<intersection, intersectionColor>>]_vars

(* A shape under a GroupNode was just hit, with lights collected, at a     *)
(* finite t that is not smaller than the finite t of the best intersection *)
(* held, which another shape owns                                          *)
C21_Witness ==
  /\ pc \in {"loop", "shade"}
  /\ Len(visited) > 1
  /\ Len(lightPositions) > 0
  /\ ~IsNull(camera)
  /\ ~IsNull(intersection)
  /\ \E v \in {visited[Len(visited)]} :
       /\ v.kind \in ShapeKinds
       /\ ~IsNull(v.hit)
       /\ v.hit # intersection
       /\ IsFinite(Val(v.hit).t)
       /\ IsFinite(Val(intersection).t)
       /\ ~Lt(Val(v.hit).t, Val(intersection).t)
       /\ v.color # intersectionColor

====
